---- MODULE Spec2Model ----
(***************************************************************************)
(* A model of the ani_lumina bot: the TTL cache (cache.py), the MAL API    *)
(* client (mal_client.py) and the slash-command handlers (bot.py).         *)
(*                                                                         *)
(* Eight specifications share the module:                                  *)
(*   SpecCache     concurrent tasks calling TTLCache.get / TTLCache.set    *)
(*                 under a clock;                                          *)
(*   SpecClient    concurrent tasks calling MALClient.info, i.e. _get with *)
(*                 its read-through cache, request lock and upstream;      *)
(*   SpecBot       one slash-command handler run from defer to return;     *)
(*   SpecSchedule  one call of MALClient.schedule;                         *)
(*   SpecPager     one pagination session under a clock;                   *)
(*   SpecWrap      a function decorated with aiorun_cached, called again   *)
(*                 and again under a clock;                                *)
(*   SpecResolve   SpecClient with search hits whose id is a string;       *)
(*   SpecLocks     concurrent commands on their way through the singleton  *)
(*                 lock, the request lock and the cache lock.              *)
(* Each specification leaves the variables of the others at their initial  *)
(* values.                                                                 *)
(***************************************************************************)
EXTENDS Integers, Sequences, FiniteSets, TLC

VARIABLES
    \* ---- cache.py: TTLCache and its callers
    now,        \* time.time(), in whole ticks
    store,      \* TTLCache._store : key -> NoItem | <<exp, val>>
    lock,       \* TTLCache._lock  : 0 (free) or the task holding it
    pc,         \* per task: where it stands in get / set
    arg,        \* per task: the arguments of the call in progress
    lastSet,    \* history: per key, the last set to acquire the lock
    dead,       \* history: per key, a get returned absent since the last set
    obs,        \* history: what the get that has just returned observed
    \* ---- mal_client.py: MALClient and its callers
    mcache,     \* MALClient._cache : the dict of the client's cache
    mlock,      \* MALClient._lock  : 0 (free) or the task holding it
    session,    \* MALClient._session is set
    cl,         \* per calling task: the info / _get call in progress
    \* ---- bot.py: the command handlers
    cred,       \* MAL_CLIENT_ID is set in the environment
    bot,        \* the handler run in progress
    \* ---- mal_client.py: MALClient.schedule
    sched,      \* the schedule call in progress
    \* ---- the pagination session (specification, section 4.3)
    pager,      \* the session and the history of its last event
    \* ---- cache.py: aiorun_cached
    wr,         \* the decorated function and its call in progress
    \* ---- bot.py / mal_client.py: the locks a command goes through
    lk          \* the singleton, its lock, the client's locks and the tasks

cacheVars == <<store, lock, pc, arg, lastSet, dead, obs>>
clientVars == <<mcache, mlock, session, cl>>
botVars == <<cred, bot>>
schedVars == <<sched>>
pagerVars == <<pager>>
wrapVars == <<wr>>
lockVars == <<lk>>

vars == <<now, store, lock, pc, arg, lastSet, dead, obs, mcache, mlock, session, cl,
          cred, bot, sched, pager, wr, lk>>

----------------------------------------------------------------------------
(* Bounds of the cache model. *)
MaxNow == 4          \* the clock runs from 1 to MaxNow
MaxTtl == 2          \* ttl arguments are 0..MaxTtl
MaxSets == 2         \* at most MaxSets set calls per key
NTasks == 2          \* concurrent callers of the cache

Tasks == 1..NTasks
Keys == {"k1", "k2"}
Values == {"v1", "v2"}
Ttls == 0..MaxTtl

None == "None"               \* Python's None as a return value
NoItem == <<>>               \* dict.get(key) found nothing

----------------------------------------------------------------------------
(* cache.py: the pure parts of TTLCache.get and TTLCache.set. *)

\* cache.py:24   exp = time.time() + ttl if ttl else 0
SetExp(t, ttl) == IF ttl # 0 THEN t + ttl ELSE 0

\* A set that keeps an entry already stored (dict.setdefault).
StoreAfterSetIfAbsent(s, k, exp, v) ==
    IF s[k] = NoItem THEN [s EXCEPT ![k] = <<exp, v>>] ELSE s

\* cache.py:25   self._store[key] = (exp, value)
StoreAfterSet(s, k, exp, v) == [s EXCEPT ![k] = <<exp, v>>]

\* cache.py:17   if exp and exp < time.time()
Expired(item, t) == item[1] # 0 /\ item[1] < t

\* cache.py:13-20  the value get returns
GetResult(s, k, t) ==
    IF s[k] = NoItem THEN None
    ELSE IF Expired(s[k], t) THEN None
    ELSE s[k][2]

\* A get that leaves a stale entry where it is.
StoreAfterGetKeepsStale(s, k, t) == s

\* cache.py:13-20  the store get leaves behind (pop of an expired entry)
StoreAfterGet(s, k, t) ==
    IF s[k] # NoItem /\ Expired(s[k], t) THEN [s EXCEPT ![k] = NoItem]
    ELSE s

----------------------------------------------------------------------------
(* History records. *)
NoSet == [n |-> 0, by |-> 0, raced |-> FALSE, at |-> 0, ttl |-> 0, val |-> None]
NoObs == [valid |-> FALSE, key |-> "k1", ret |-> None, at |-> 0,
          set |-> NoSet, wasDead |-> FALSE]
NoArg == [key |-> "k1", val |-> None, ttl |-> 0]

\* cache.py:7-9, 27  the module's cache after construction
CacheInit ==
    /\ store = [k \in Keys |-> NoItem]
    /\ lock = 0
    /\ pc = [t \in Tasks |-> "idle"]
    /\ arg = [t \in Tasks |-> NoArg]
    /\ lastSet = [k \in Keys |-> NoSet]
    /\ dead = [k \in Keys |-> FALSE]
    /\ obs = NoObs

\* The clock advances while tasks are suspended or between calls.
Tick ==
    /\ now < MaxNow
    /\ now' = now + 1
    /\ obs' = NoObs
    /\ UNCHANGED <<store, lock, pc, arg, lastSet, dead>>
    /\ UNCHANGED <<clientVars, botVars, wrapVars, lockVars, schedVars, pagerVars>>

\* A task calls set(key, value, ttl) and reaches `async with self._lock`.
SetCall(t, k, v, ttl) ==
    /\ pc[t] = "idle"
    /\ lastSet[k].n
         + Cardinality({u \in Tasks : pc[u] = "set_wait" /\ arg[u].key = k})
         < MaxSets
    /\ pc' = [pc EXCEPT ![t] = "set_wait"]
    /\ arg' = [arg EXCEPT ![t] = [key |-> k, val |-> v, ttl |-> ttl]]
    /\ obs' = NoObs
    /\ UNCHANGED <<now, store, lock, lastSet, dead>>
    /\ UNCHANGED <<clientVars, botVars, wrapVars, lockVars, schedVars, pagerVars>>

\* asyncio.Lock.acquire: only while the lock is free.
LockFree(l) == l = 0

\* cache.py:23  the task enters the lock.
SetAcquire(t) ==
    /\ pc[t] = "set_wait"
    /\ LockFree(lock)
    /\ lock' = t
    /\ pc' = [pc EXCEPT ![t] = "set_locked"]
    /\ lastSet' = [lastSet EXCEPT ![arg[t].key] =
                     [n |-> @.n + 1, by |-> t, at |-> 0,
                      raced |-> @.raced \/ \E u \in Tasks \ {t} :
                                   /\ pc[u] = "set_wait"
                                   /\ arg[u].key = arg[t].key
                                   /\ arg[u].val # arg[t].val,
                      ttl |-> arg[t].ttl, val |-> arg[t].val]]
    /\ obs' = NoObs
    /\ UNCHANGED <<now, store, arg, dead>>
    /\ UNCHANGED <<clientVars, botVars, wrapVars, lockVars, schedVars, pagerVars>>

\* cache.py:24-25  the body of set, then the lock is released.
SetBody(t) ==
    /\ pc[t] = "set_locked"
    /\ store' = StoreAfterSet(store, arg[t].key, SetExp(now, arg[t].ttl), arg[t].val)
    /\ lastSet' = [lastSet EXCEPT ![arg[t].key] =
                     IF @.by = t THEN [@ EXCEPT !.by = 0, !.at = now] ELSE @]
    /\ lock' = IF lock = t THEN 0 ELSE lock
    /\ pc' = [pc EXCEPT ![t] = "idle"]
    /\ arg' = [arg EXCEPT ![t] = NoArg]
    /\ dead' = [dead EXCEPT ![arg[t].key] = FALSE]
    /\ obs' = NoObs
    /\ UNCHANGED now
    /\ UNCHANGED <<clientVars, botVars, wrapVars, lockVars, schedVars, pagerVars>>

\* A task calls get(key) and reaches `async with self._lock`.
GetCall(t, k) ==
    /\ pc[t] = "idle"
    /\ pc' = [pc EXCEPT ![t] = "get_wait"]
    /\ arg' = [arg EXCEPT ![t] = [key |-> k, val |-> None, ttl |-> 0]]
    /\ obs' = NoObs
    /\ UNCHANGED <<now, store, lock, lastSet, dead>>
    /\ UNCHANGED <<clientVars, botVars, wrapVars, lockVars, schedVars, pagerVars>>

\* cache.py:12  the task enters the lock.
GetAcquire(t) ==
    /\ pc[t] = "get_wait"
    /\ LockFree(lock)
    /\ lock' = t
    /\ pc' = [pc EXCEPT ![t] = "get_locked"]
    /\ obs' = NoObs
    /\ UNCHANGED <<now, store, arg, lastSet, dead>>
    /\ UNCHANGED <<clientVars, botVars, wrapVars, lockVars, schedVars, pagerVars>>

\* cache.py:13-20  the body of get, then the lock is released.
GetBody(t) ==
    /\ pc[t] = "get_locked"
    /\ LET k == arg[t].key
           r == GetResult(store, k, now)
       IN /\ store' = StoreAfterGet(store, k, now)
          /\ obs' = [valid |-> TRUE, key |-> k, ret |-> r, at |-> now,
                     set |-> lastSet[k], wasDead |-> dead[k]]
          /\ dead' = [dead EXCEPT ![k] = @ \/ (r = None /\ lastSet[k].n > 0)]
    /\ lock' = IF lock = t THEN 0 ELSE lock
    /\ pc' = [pc EXCEPT ![t] = "idle"]
    /\ arg' = [arg EXCEPT ![t] = NoArg]
    /\ UNCHANGED <<now, lastSet>>
    /\ UNCHANGED <<clientVars, botVars, wrapVars, lockVars, schedVars, pagerVars>>

----------------------------------------------------------------------------
(* mal_client.py: data.  JSON values (and Python values built from them)   *)
(* are tagged records; a dict is a function from its keys.                 *)

JNull == [t |-> "null", v |-> 0]                 \* None
JInt(n) == [t |-> "int", v |-> n]
JStr(s) == [t |-> "str", v |-> s]                \* s: a sequence of characters
JList(q) == [t |-> "list", v |-> q]
JDict(f) == [t |-> "dict", v |-> f]
EmptyDict == JDict(<<>>)                         \* {}

\* Python truthiness: None, 0, "", [] and {} are false.
Truthy(j) ==
    CASE j.t = "null" -> FALSE
      [] j.t = "int" -> j.v # 0
      [] j.t = "str" -> Len(j.v) > 0
      [] j.t = "list" -> Len(j.v) > 0
      [] j.t = "dict" -> DOMAIN j.v # {}

\* x or y, x and y
PyOr(x, y) == IF Truthy(x) THEN x ELSE y
PyAnd(x, y) == IF Truthy(x) THEN y ELSE x

\* d.get(k): None when d has no key k
DictGet(d, k) == IF k \in DOMAIN d.v THEN d.v[k] ELSE JNull

\* d.get(k, {})
DictGetOrEmpty(d, k) == IF k \in DOMAIN d.v THEN d.v[k] ELSE EmptyDict

Digits == {"0", "1", "2", "3", "4", "5", "6", "7", "8", "9"}

DigitVal(c) ==
    CASE c = "0" -> 0 [] c = "1" -> 1 [] c = "2" -> 2 [] c = "3" -> 3
      [] c = "4" -> 4 [] c = "5" -> 5 [] c = "6" -> 6 [] c = "7" -> 7
      [] c = "8" -> 8 [] c = "9" -> 9

\* str.isdigit(): non-empty and digits only
IsDigit(s) == Len(s) > 0 /\ \A i \in 1..Len(s) : s[i] \in Digits

\* int(s) for a digit string
RECURSIVE StrToInt(_)
StrToInt(s) ==
    IF Len(s) = 0 THEN 0
    ELSE 10 * StrToInt(SubSeq(s, 1, Len(s) - 1)) + DigitVal(s[Len(s)])

\* mal_client.py:102  an int, or a string of digits
IsNumericIntOnly(ident) == ident.t = "int"

IsNumeric(ident) == ident.t = "int" \/ (ident.t = "str" /\ IsDigit(ident.v))

\* mal_client.py:103  item_id = int(identifier)
ToId(ident) == IF ident.t = "int" THEN ident.v ELSE StrToInt(ident.v)

(* Bounds of the client model. *)
NCallers == 2        \* concurrent callers of the client
MaxCalls == 2        \* info calls made in a run, by all callers together
ClockStep == 30      \* seconds the client's clock advances at a time
MaxClock == 61       \* the client's clock stops here

\* bot.py:42  MALClient(client_id=MAL_CLIENT_ID, cache_ttl=60)
CacheTtl == 60

Callers == 1..NCallers
Kinds == {"anime"}
HitIds == {2}                \* the ids search hits carry

\* The identifiers callers pass to info: an int id, a digit string (with a
\* leading zero) and a name, which is not all digits.
Identifiers == {JInt(1), JStr(<<"0", "1">>), JStr(<<"1", "n">>)}
Ids == {ToId(i) : i \in {j \in Identifiers : IsNumeric(j)}} \cup HitIds

\* mal_client.py:36-37, 73-74  the request of a search: cache key and url
SearchReq(kind, q, limit) ==
    [op |-> "search", kind |-> kind, id |-> 0, q |-> q, limit |-> limit]

\* mal_client.py:36-37, 104-105  the request of a fetch by id
FetchReq(kind, id) ==
    [op |-> "fetch", kind |-> kind, id |-> id, q |-> <<>>, limit |-> 0]

NoReq == [op |-> "none", kind |-> "anime", id |-> 0, q |-> <<>>, limit |-> 0]

\* Upstream: the statuses it answers with, and the bodies of a 200.
Statuses == {200, 204, 400, 401, 404, 429, 500}

WrappedHit(i) == JDict([node |-> JDict([id |-> JInt(i)])])
UnwrappedHit(i) == JDict([id |-> JInt(i)])
NoIdHit == JDict([node |-> JDict([title |-> JStr(<<"n">>)])])
DataOf(q) == JDict([data |-> JList(q)])

SearchBodies ==
    {EmptyDict, DataOf(<<>>), DataOf(<<NoIdHit>>)}
      \cup {DataOf(<<WrappedHit(i)>>) : i \in HitIds}
      \cup {DataOf(<<UnwrappedHit(i)>>) : i \in HitIds}

FetchBody(i) == JDict([id |-> JInt(i)])

\* A search hit whose id is a string, and the strings such ids are: the
\* name the callers search for, which is not all digits.
StrIdHit(name) == JDict([node |-> JDict([id |-> JStr(name)])])
HitNames == {<<"1", "n">>}

\* The bodies of a search, those with a string id included.
ResolveBodies ==
    SearchBodies \cup {DataOf(<<StrIdHit(name)>>) : name \in HitNames}

BodiesFor(req) ==
    IF req.op = "search" THEN ResolveBodies ELSE {FetchBody(req.id)}

(* The client's cache.  mal_client.py imports AsyncTTLCache from cache,    *)
(* which cache.py does not define; it is modelled from the specification   *)
(* (section 4.1): get returns the value while now < expires_at and purges  *)
(* a stale entry, set stores the value with expires_at = now + ttl.        *)

NoCache == [k \in {} |-> <<0, JNull>>]

McFresh(m, key, t) == key \in DOMAIN m /\ t < m[key][1]

McGet(m, key, t) == IF McFresh(m, key, t) THEN m[key][2] ELSE JNull

McAfterGet(m, key, t) ==
    IF key \in DOMAIN m /\ ~McFresh(m, key, t)
    THEN [k \in DOMAIN m \ {key} |-> m[k]]
    ELSE m

McSet(m, key, val, t) ==
    [k \in DOMAIN m \cup {key} |-> IF k = key THEN <<t + CacheTtl, val>> ELSE m[k]]


\* What the calls in progress look like.
\* prev: the caller's previous call, when it returned and was for the same
\* identifier as the call in progress.
NoCall == [seen |-> FALSE, t0 |-> 0, ups |-> <<>>]

IdleCaller ==
    [pc |-> "idle", ident |-> JNull, orig |-> JNull, kind |-> "anime",
     req |-> NoReq, status |-> 0, err |-> "none", exc |-> 0, sres |-> JNull,
     res |-> JNull, got |-> JNull, gets |-> <<>>, ups |-> <<>>,
     sentFresh |-> FALSE, t0 |-> 0, n |-> 0, prev |-> NoCall]

\* mal_client.py:13-20  the client after construction
ClientInit ==
    /\ mcache = NoCache
    /\ mlock = 0
    /\ session = FALSE
    /\ cl = [c \in Callers |-> IdleCaller]

----------------------------------------------------------------------------
(* bot.py: the slash-command handlers.  A handler is run from its defer to *)
(* its return against a client whose calls answer with any of the results  *)
(* MALClient can give (SpecClient models how it comes by them).            *)

\* bot.py:32
DEFAULT_LIMIT == 15

\* bot.py:77  the largest limit a clamping handler lets through
ApiMaxLimit == 15

(* Bounds of the handler model. *)
MaxLimitInput == 16  \* the first user-supplied limit over the API maximum
MaxItems == 2        \* an upstream result list has at most MaxItems items

LimitInputs == {-1, 0, 1, 2, 15, MaxLimitInput, 60}
KindInputs == {"anime", "Manga", "people", "bogus"}
IdentInputs == {<<>>, <<"5">>, <<"n">>}      \* "", "5", a name

\* str.lower() on the kinds users type
Lower(k) == IF k = "Manga" THEN "manga" ELSE k

\* The commands, as bot.py defines them:
\*   default   the default of the limit parameter (0: the command has none)
\*   clamps    limit = max(1, min(15, limit))
\*   cred      returns an error when MAL_CLIENT_ID is not set
\*   emptyMsg  sends a message when the result list is empty
\*   kinded    takes a kind; kindCheck: rejects kinds other than anime, manga
\*   ident     takes an identifier and rejects an empty one
\*   card      what a card is made from: "any" the details fetched for the
\*             id of the node or of the entry, "node" the details fetched for
\*             the node's id, "raw" the node itself, "sched" the details
\*             fetched for node.get("id")
Commands ==
    [ anime      |-> [default |-> 15, clamps |-> TRUE, cred |-> TRUE, emptyMsg |-> TRUE,
                      kinded |-> FALSE, kindCheck |-> FALSE, ident |-> FALSE,
                      op |-> "search", card |-> "any"],
      manga      |-> [default |-> 15, clamps |-> TRUE, cred |-> TRUE, emptyMsg |-> TRUE,
                      kinded |-> FALSE, kindCheck |-> FALSE, ident |-> FALSE,
                      op |-> "search", card |-> "node"],
      info       |-> [default |-> 0, clamps |-> FALSE, cred |-> FALSE, emptyMsg |-> FALSE,
                      kinded |-> TRUE, kindCheck |-> TRUE, ident |-> TRUE,
                      op |-> "info", card |-> "raw"],
      top        |-> [default |-> 10, clamps |-> TRUE, cred |-> FALSE, emptyMsg |-> TRUE,
                      kinded |-> TRUE, kindCheck |-> FALSE, ident |-> FALSE,
                      op |-> "ranking", card |-> "node"],
      trending   |-> [default |-> 10, clamps |-> TRUE, cred |-> FALSE, emptyMsg |-> FALSE,
                      kinded |-> TRUE, kindCheck |-> FALSE, ident |-> FALSE,
                      op |-> "ranking", card |-> "node"],
      season     |-> [default |-> 15, clamps |-> TRUE, cred |-> FALSE, emptyMsg |-> FALSE,
                      kinded |-> FALSE, kindCheck |-> FALSE, ident |-> FALSE,
                      op |-> "season", card |-> "node"],
      nextseason |-> [default |-> 15, clamps |-> TRUE, cred |-> FALSE, emptyMsg |-> FALSE,
                      kinded |-> FALSE, kindCheck |-> FALSE, ident |-> FALSE,
                      op |-> "season", card |-> "node"],
      recommend  |-> [default |-> 10, clamps |-> FALSE, cred |-> FALSE, emptyMsg |-> TRUE,
                      kinded |-> TRUE, kindCheck |-> FALSE, ident |-> TRUE,
                      op |-> "recommendations", card |-> "raw"],
      character  |-> [default |-> 10, clamps |-> FALSE, cred |-> FALSE, emptyMsg |-> TRUE,
                      kinded |-> FALSE, kindCheck |-> FALSE, ident |-> FALSE,
                      op |-> "search", card |-> "raw"],
      voiceactor |-> [default |-> 10, clamps |-> FALSE, cred |-> FALSE, emptyMsg |-> FALSE,
                      kinded |-> FALSE, kindCheck |-> FALSE, ident |-> FALSE,
                      op |-> "search", card |-> "raw"],
      studio     |-> [default |-> 10, clamps |-> FALSE, cred |-> FALSE, emptyMsg |-> FALSE,
                      kinded |-> FALSE, kindCheck |-> FALSE, ident |-> FALSE,
                      op |-> "search", card |-> "raw"],
      schedule   |-> [default |-> 50, clamps |-> FALSE, cred |-> FALSE, emptyMsg |-> TRUE,
                      kinded |-> FALSE, kindCheck |-> FALSE, ident |-> FALSE,
                      op |-> "season", card |-> "sched"] ]

CommandNames == DOMAIN Commands

Max(a, b) == IF a >= b THEN a ELSE b
Min(a, b) == IF a <= b THEN a ELSE b

\* bot.py:77  limit = max(1, min(15, limit))
Clamp(limit) == Max(1, Min(ApiMaxLimit, limit))

\* The limit a handler passes to the client.
HandlerLimit(cmd, limit) == IF Commands[cmd].clamps THEN Clamp(limit) ELSE limit

\* str(n) for an int, as a sequence of characters
DigitChar(d) ==
    CASE d = 0 -> "0" [] d = 1 -> "1" [] d = 2 -> "2" [] d = 3 -> "3"
      [] d = 4 -> "4" [] d = 5 -> "5" [] d = 6 -> "6" [] d = 7 -> "7"
      [] d = 8 -> "8" [] d = 9 -> "9"

RECURSIVE NatToStr(_)
NatToStr(n) ==
    IF n < 10 THEN <<DigitChar(n)>>
    ELSE Append(NatToStr(n \div 10), DigitChar(n % 10))

IntToStr(n) == IF n < 0 THEN <<"-">> \o NatToStr(-n) ELSE NatToStr(n)

\* seq[:n] of Python
PySlice(q, n) ==
    IF n >= 0 THEN SubSeq(q, 1, Min(n, Len(q)))
    ELSE SubSeq(q, 1, Max(Len(q) + n, 0))

\* The result lists upstream sends: up to MaxItems items, wrapped or not.
ItemShapes == {WrappedHit(2), UnwrappedHit(2)}
ItemLists == UNION {[1..n -> ItemShapes] : n \in 1..MaxItems}

\* What a client call gives a handler: an exception, None (a 204), an empty
\* record, a result without items, or a result list.
Raised == JStr(<<"raised">>)
ClientResults ==
    {Raised, JNull, EmptyDict, DataOf(<<>>)} \cup {DataOf(q) : q \in ItemLists}

\* bot.py:86  items = data.get("data", []) if isinstance(data, dict) else []
ItemsOf(data) ==
    IF data.t = "dict" /\ "data" \in DOMAIN data.v THEN data.v["data"].v ELSE <<>>

\* bot.py:95, 130  node = entry.get("node") if isinstance(entry, dict) else entry
NodeOf(entry) == IF entry.t = "dict" THEN DictGet(entry, "node") ELSE entry

\* bot.py:97-101, 131, 172  the id a handler fetches details for (None: no fetch)
ItemIdOf(card, entry) ==
    LET node == NodeOf(entry)
        nodeId == IF node.t = "dict" THEN DictGet(node, "id") ELSE JNull
    IN CASE card = "any" ->
              LET a == IF node.t = "dict"
                       THEN PyOr(DictGet(node, "id"),
                                 DictGet(DictGetOrEmpty(node, "node"), "id"))
                       ELSE JNull
              IN IF ~Truthy(a) /\ entry.t = "dict" THEN DictGet(entry, "id") ELSE a
         [] card = "node" -> nodeId
         [] card = "sched" -> nodeId
         [] card = "raw" -> JNull

NoBot ==
    [pc |-> "ready", cmd |-> "anime", limitIn |-> 0, given |-> FALSE,
     limit |-> 0, kind |-> "anime", ident |-> <<>>,
     deferred |-> FALSE, msgs |-> <<>>, reqs |-> <<>>,
     data |-> JNull, queue |-> <<>>, failed |-> FALSE,
     \* the calls made on interaction.response (defer, send_message)
     responseCalls |-> 0]

\* bot.py:19  MAL_CLIENT_ID = os.getenv("MAL_CLIENT_ID"): set or not
BotInit ==
    /\ cred \in BOOLEAN
    /\ bot = NoBot

\* No handler runs (the specifications of the cache and of the client).
BotIdle ==
    /\ cred = TRUE
    /\ bot = NoBot

----------------------------------------------------------------------------
(* mal_client.py: MALClient.schedule.  The season's items carry the weekday *)
(* they air on (MAL's broadcast field), which is what a filter by day would *)
(* look at.                                                                 *)

(* Bound of the schedule model. *)
MaxSeason == 3       \* the season list has at most MaxSeason items

Monday == <<"m", "o", "n", "d", "a", "y">>
Tuesday == <<"t", "u", "e", "s", "d", "a", "y">>
Weekdays == {Monday, Tuesday}

\* bot.py:291  the day a user gives: omitted (None), empty, or a weekday in
\* any case
DayInputs ==
    {JNull, JStr(<<>>), JStr(Monday),
     JStr(<<"T", "u", "e", "s", "d", "a", "y">>)}

\* mal_client.py:166  day.lower()
LowerChar(ch) == IF ch = "T" THEN "t" ELSE IF ch = "M" THEN "m" ELSE ch
StrLower(str) == [i \in 1..Len(str) |-> LowerChar(str[i])]

\* An item of the season list that airs on weekday d, in the node envelope
\* or without it.
SeasonItem(d, wrapped) ==
    LET rec == JDict([id |-> JInt(2), broadcast |-> JStr(d)])
    IN IF wrapped THEN JDict([node |-> rec]) ELSE rec

SeasonItems == {SeasonItem(d, w) : d \in Weekdays, w \in BOOLEAN}
SeasonLists == UNION {[1..n -> SeasonItems] : n \in 0..MaxSeason}

\* mal_client.py:162  what seasonal gives schedule: an exception, None (a
\* 204), a body without a results array, or the season list
SeasonResults == {Raised, JNull, EmptyDict} \cup {DataOf(q) : q \in SeasonLists}

\* The weekday an item airs on.
AirsOn(item) ==
    LET info == PyOr(DictGet(item, "node"), item)
    IN DictGet(info, "broadcast").v

\* mal_client.py:171-174  whether schedule keeps an item for the day asked:
\* "just include everything"
KeepsItem(item, dayLow) == TRUE

\* seq of the items of q that schedule keeps
RECURSIVE Filtered(_, _)
Filtered(q, dayLow) ==
    IF q = <<>> THEN <<>>
    ELSE IF KeepsItem(Head(q), dayLow)
         THEN <<Head(q)>> \o Filtered(Tail(q), dayLow)
         ELSE Filtered(Tail(q), dayLow)

\* mal_client.py:162-175  the value of schedule(day) given what seasonal
\* returned (Raised: the call ends in an exception; season_data.get on None
\* raises AttributeError)
ScheduleResult(season, day) ==
    IF season = Raised THEN Raised
    ELSE IF ~Truthy(day) THEN season
    ELSE IF season.t # "dict" THEN Raised
    ELSE LET items == IF "data" \in DOMAIN season.v THEN season.v["data"].v
                      ELSE <<>>
         IN DataOf(Filtered(items, StrLower(day.v)))

NoSched == [pc |-> "idle", day |-> JNull, season |-> JNull, res |-> JNull]

SchedInit == sched = NoSched

----------------------------------------------------------------------------
(* The pagination session.  No file of src/ holds it; it is modelled from   *)
(* the specification (sections 3 and 4.3): a session is Active(current_index) *)
(* or Expired, Next and Prev clamp, an event of a user other than the owner  *)
(* is rejected in the owner-restricted variant, and the session is inert     *)
(* once more than ttl has passed since its last accepted transition.        *)

(* Bounds of the session model. *)
MaxPages == 3        \* a session has 1..MaxPages pages
MaxSessionTtl == 2   \* ttl is 1..MaxSessionTtl ticks
MaxSessionClock == 5 \* the clock stops at MaxSessionClock
NUsers == 2          \* the users who send events

Users == 1..NUsers

\* No event yet.  An event's record keeps what the session was before it:
\* idx0, last0; what was done with it: outcome, acked, rendered; and the run
\* of accepted events of the same kind it ends: run events, the first one
\* from index from.
NoEvent ==
    [kind |-> "none", user |-> 0, outcome |-> "none", acked |-> FALSE,
     rendered |-> FALSE, idle |-> FALSE, idx0 |-> 0, last0 |-> 0,
     run |-> 0, from |-> 0]

NoPager ==
    [state |-> "none", n |-> 0, idx |-> 0, owner |-> 0, restricted |-> FALSE,
     ttl |-> 0, last |-> 0, ev |-> NoEvent]

\* No session exists (the specifications of the cache, the client, the
\* handlers and schedule).
PagerIdle == pager = NoPager

\* Section 4.3: the initial state is Active(0) on creation.
NewSession(n, owner, restricted, ttl, t) ==
    [NoPager EXCEPT !.state = "Active", !.n = n, !.owner = owner,
                    !.restricted = restricted, !.ttl = ttl, !.last = t]

NextIndexUnclamped(idx, n) == idx + 1

\* Next: current_index = min(current_index+1, len(pages)-1)
NextIndex(idx, n) == Min(idx + 1, n - 1)

\* Prev: current_index = max(current_index-1, 0)
PrevIndex(idx, n) == Max(idx - 1, 0)

SessionExpiredNever(p, t) == p.state = "Expired"

\* The session is Expired, or more than ttl has passed since its last
\* accepted transition (section 3: rendered inert when now - created_at > ttl,
\* created_at reset on every successful Next/Prev).
SessionExpired(p, t) == p.state = "Expired" \/ t - p.last > p.ttl

AuthorizedAnyone(p, u) == TRUE

\* Authorization: in the owner-restricted variant only owner_id navigates.
Authorized(p, u) == ~p.restricted \/ u = p.owner

----------------------------------------------------------------------------
(* cache.py: aiorun_cached.  One caller calls a decorated function, one     *)
(* call after the other, against the module's CACHE (the variable store).   *)

\* What the decorated function can return: None, a falsy value (the empty
\* string) and truthy values.
Results == {None, ""} \cup Values

\* cache.py:33  key = f"{func.__name__}|{args}|{sorted(kwargs.items())}":
\* equal args and kwargs give the same key; the calls are told apart by it.

\* A completed call: its key, what it returned, whether it invoked the
\* function, when it read the cache and when it wrote it (0: it did not).
NoCallRec ==
    [valid |-> FALSE, key |-> "k1", result |-> None, invoked |-> FALSE,
     getAt |-> 0, setAt |-> 0]

NoWrap ==
    [pc |-> "idle", ttl |-> 0, key |-> "k1", getAt |-> 0, result |-> None,
     last |-> NoCallRec, prev |-> NoCallRec]

\* No decorated function is in use (the other specifications).
WrapIdle == wr = NoWrap

\* cache.py:35  if cached is not None
IsCacheHit(cached) == cached # None

----------------------------------------------------------------------------
(* The locks of a command: bot.py get_mal_client, mal_client.py _get and   *)
(* the cache.  The handlers are tasks of one event loop: a task runs until *)
(* it awaits, and an asyncio.Lock wakes its waiters first come, first      *)
(* served.                                                                 *)

NHandlers == 2       \* handler tasks that run at the same time
MaxCommands == 2     \* commands each of them handles

Handlers == 1..NHandlers

\* bot.py:35  _mal_client_singleton_lock
SingletonLock == "singleton"
\* mal_client.py:20  self._lock
RequestLock == "request"
\* The lock of the client's cache (AsyncTTLCache is not in cache.py): the
\* cache's map is guarded by its own lock, as TTLCache's is (cache.py:9).
CacheLock == "cache"

LockNames == {SingletonLock, RequestLock, CacheLock}

\* asyncio.Lock(): not held, nobody waits
FreeLock == [holder |-> 0, queue |-> <<>>]

\* async with lock, on entry: a free lock nobody waits for is taken at
\* once, otherwise the task joins the waiters.
LockAcquire(L, l, t) ==
    IF L[l].holder = 0 /\ L[l].queue = <<>>
    THEN [L EXCEPT ![l].holder = t]
    ELSE [L EXCEPT ![l].queue = Append(@, t)]

\* The lock is handed to the first waiter.
LockGrant(L, l) ==
    [L EXCEPT ![l].holder = Head(L[l].queue), ![l].queue = Tail(@)]

LockReleaseNever(L, l) == L

\* async with lock, on exit (by return or by exception)
LockRelease(L, l) == [L EXCEPT ![l].holder = 0]

\* The task waits for lock l / holds it.
Waits(L, l, t) == \E i \in 1..Len(L[l].queue) : L[l].queue[i] = t
Holds(L, l, t) == L[l].holder = t

\* A handler task: where it is, the commands it has handled, the client
\* get_mal_client returned to it (0: none yet) and the locks it waited for.
IdleHandler == [pc |-> "idle", n |-> 0, client |-> 0, waited |-> {}]

\* bot.py:35-36  the module after import: no client, the lock free; no
\* MALClient constructed or entered.
NoLocks ==
    [singleton |-> 0, built |-> 0, entered |-> 0,
     locks |-> [l \in LockNames |-> FreeLock],
     t |-> [h \in Handlers |-> IdleHandler]]

LocksIdle == lk = NoLocks

ConstructAlways(singleton) == TRUE

\* bot.py:41  if _mal_client_singleton is None
NeedsConstruction(singleton) == singleton = 0

----------------------------------------------------------------------------
InitCache ==
    /\ now = 1                       \* time.time() is positive
    /\ CacheInit
    /\ ClientInit
    /\ BotIdle
    /\ SchedInit
    /\ PagerIdle
    /\ WrapIdle
    /\ LocksIdle

NextCache ==
    \/ Tick
    \/ \E t \in Tasks, k \in Keys, v \in Values, ttl \in Ttls : SetCall(t, k, v, ttl)
    \/ \E t \in Tasks : SetAcquire(t)
    \/ \E t \in Tasks : SetBody(t)
    \/ \E t \in Tasks, k \in Keys : GetCall(t, k)
    \/ \E t \in Tasks : GetAcquire(t)
    \/ \E t \in Tasks : GetBody(t)

SpecCache == InitCache /\ [][NextCache]_vars

----------------------------------------------------------------------------
(* Claims about TTLCache, checked under SpecCache. *)

\* The last set on key k to acquire the lock has finished its body.
SetDone(k) == lastSet[k].n > 0 /\ lastSet[k].by = 0

\* C1: a get after set(key, value, ttl) returns value before ttl has elapsed,
\* returns absent once more than ttl has elapsed, and returns absent again on
\* every later get with no set in between, for every ttl.
C1_GetFollowsTtl ==
    (obs.valid /\ obs.set.n > 0) =>
        /\ (obs.at - obs.set.at < obs.set.ttl => obs.ret = obs.set.val)
        /\ (obs.at - obs.set.at > obs.set.ttl => obs.ret = None)
        /\ (obs.wasDead => obs.ret = None)

\* C2: get returns a value only while now < expires_at, where expires_at is
\* the time of the storing set plus its ttl, for every ttl >= 0.
C2_VisibleOnlyBeforeExpiry ==
    (obs.valid /\ obs.set.n > 0 /\ obs.ret # None) =>
        obs.at < obs.set.at + obs.set.ttl

\* C3: once the last set on a key to acquire the lock has completed, the key
\* holds that set's value and expiry (until a get purges it as expired), and
\* a set changes the entry of no other key.
C3_KeyHoldsLastSet ==
    \A k \in Keys :
        SetDone(k) =>
            LET e == <<SetExp(lastSet[k].at, lastSet[k].ttl), lastSet[k].val>>
            IN \/ store[k] = e
               \/ store[k] = NoItem /\ dead[k] /\ Expired(e, now)

C3_SetFrame ==
    \A t \in Tasks :
        SetBody(t) => \A k \in Keys \ {arg[t].key} : store'[k] = store[k]

C3_NoLostUpdate == []C3_KeyHoldsLastSet /\ [][C3_SetFrame]_vars

\* Two set calls with different values on one key were pending together, both
\* have completed, and the key holds the entry of the later one to take the
\* lock, while the other key holds its own.
C3_Witness ==
    \E k \in Keys, k2 \in Keys :
        /\ k # k2
        /\ SetDone(k) /\ lastSet[k].n >= 2 /\ lastSet[k].raced
        /\ store[k] # NoItem /\ store[k][2] = lastSet[k].val
        /\ SetDone(k2) /\ store[k2] # NoItem
        /\ \A t \in Tasks : pc[t] = "idle"

----------------------------------------------------------------------------
(* mal_client.py: MALClient._get, search and info. *)

\* A _get that stores whatever a 200 or a 204 brought.
CacheOnAnyResponse(m, req, status, body, t) ==
    IF status \in {200, 204} THEN McSet(m, req, body, t) ELSE m

\* mal_client.py:51-65  the cache after a response: only a 200 is stored
CacheOnResponse(m, req, status, body, t) ==
    IF status = 200 THEN McSet(m, req, body, t) ELSE m

\* mal_client.py:102-109  the request info makes first for an identifier
InfoRequest(ident, kind) ==
    IF IsNumeric(ident) THEN FetchReq(kind, ToId(ident))
    ELSE SearchReq(kind, ident.v, 1)

\* mal_client.py:113-122  the id info takes from the first search hit
FirstHitId(first) ==
    LET node == PyOr(DictGet(first, "node"), PyAnd(DictGet(first, "id"), first))
    IN IF node.t = "dict"
       THEN PyOr(DictGet(node, "id"), DictGet(DictGetOrEmpty(node, "node"), "id"))
       ELSE DictGet(first, "id")

\* mal_client.py:110-125  what info does with the result of its search:
\* the id to fetch, or None when info returns {}.
IdAfterSearch(sr) ==
    IF ~Truthy(sr) THEN JNull
    ELSE IF sr.t = "dict" /\ Truthy(DictGet(sr, "data"))
         THEN FirstHitId(DictGet(sr, "data").v[1])
         ELSE JNull

\* mal_client.py:106, 109-125  info resumes with the value _get returned.
AfterGet(r, val) ==
    IF r.req.op = "fetch"
    THEN [r EXCEPT !.pc = "done", !.res = val]
    ELSE LET id == IdAfterSearch(val)
         IN IF Truthy(id)
            THEN [r EXCEPT !.pc = "lookup", !.sres = val,
                           !.ident = id,
                           !.req = InfoRequest(id, r.kind),
                           !.gets = Append(@, InfoRequest(id, r.kind))]
            ELSE [r EXCEPT !.pc = "done", !.sres = val,
                           !.res = EmptyDict]

\* The seconds pass.
ClientTick ==
    /\ now + ClockStep <= MaxClock
    /\ now' = now + ClockStep
    /\ UNCHANGED <<cacheVars, clientVars, botVars, wrapVars, lockVars, schedVars, pagerVars>>

\* The calls of info started so far, by all callers together.
RECURSIVE CallsMade(_)
CallsMade(S) ==
    IF S = {} THEN 0
    ELSE LET c == CHOOSE x \in S : TRUE IN cl[c].n + CallsMade(S \ {c})

\* mal_client.py:95-109  a caller calls info(identifier, kind) and info
\* calls _get (directly or through search).
InfoCall(c, ident, kind) ==
    /\ cl[c].pc \in {"idle", "done", "raised"}
    /\ CallsMade(Callers) < MaxCalls
    /\ cl' = [cl EXCEPT ![c] =
                [IdleCaller EXCEPT
                    !.pc = "lookup", !.ident = ident, !.orig = ident,
                    !.kind = kind, !.req = InfoRequest(ident, kind),
                    !.gets = <<InfoRequest(ident, kind)>>,
                    !.t0 = now, !.n = cl[c].n + 1,
                    !.prev = IF cl[c].pc = "done" /\ cl[c].orig = ident
                             THEN [seen |-> TRUE, t0 |-> cl[c].t0,
                                   ups |-> cl[c].ups]
                             ELSE NoCall]]
    /\ UNCHANGED <<now, cacheVars, botVars, wrapVars, lockVars, schedVars, pagerVars, mcache, mlock, session>>

\* mal_client.py:36-46  _get looks the request up in the cache; on a miss
\* it makes sure there is a session and goes for the request lock.
Lookup(c) ==
    /\ cl[c].pc = "lookup"
    /\ LET cached == McGet(mcache, cl[c].req, now)
       IN /\ mcache' = McAfterGet(mcache, cl[c].req, now)
          /\ IF cached # JNull
             THEN /\ cl' = [cl EXCEPT ![c] = AfterGet([@ EXCEPT !.got = cached], cached)]
                  /\ UNCHANGED session
             ELSE /\ cl' = [cl EXCEPT ![c].pc = "wait_lock"]
                  /\ session' = TRUE
    /\ UNCHANGED <<now, cacheVars, botVars, wrapVars, lockVars, schedVars, pagerVars, mlock>>

\* mal_client.py:48  async with self._lock: the one lock of the client is
\* free for a caller that waits for it.
CanSend(c) ==
    /\ cl[c].pc = "wait_lock"
    /\ LockFree(mlock)

\* mal_client.py:48-49  the caller takes the request lock and sends the GET.
Send(c) ==
    /\ CanSend(c)
    /\ mlock' = c
    /\ cl' = [cl EXCEPT ![c].pc = "in_flight",
                        ![c].ups = Append(@, cl[c].req.op),
                        ![c].sentFresh = McFresh(mcache, cl[c].req, now)]
    /\ UNCHANGED <<now, cacheVars, botVars, wrapVars, lockVars, schedVars, pagerVars, mcache, session>>

ResponseErrorStatusLost(status) == 0

\* mal_client.py:59-65  the status attribute of the ClientResponseError that
\* _get raises: status=resp.status
ResponseErrorStatus(status) == status

\* mal_client.py:49-65  the response's status arrives: a 200 goes on to
\* read the body, a 204 returns None, any other status raises.
Respond(c, status) ==
    /\ cl[c].pc = "in_flight"
    /\ mcache' = IF status = 200 THEN mcache
                 ELSE CacheOnResponse(mcache, cl[c].req, status, JNull, now)
    /\ IF status = 200
       THEN /\ cl' = [cl EXCEPT ![c].pc = "reading", ![c].status = 200]
            /\ UNCHANGED mlock
       ELSE /\ mlock' = 0
            /\ cl' = [cl EXCEPT ![c] =
                        IF status = 204
                        THEN AfterGet([@ EXCEPT !.status = 204, !.got = JNull], JNull)
                        ELSE [@ EXCEPT !.pc = "raised", !.status = status,
                                       !.err = "http",
                                       !.exc = ResponseErrorStatus(status)]]
    /\ UNCHANGED <<now, cacheVars, botVars, wrapVars, lockVars, schedVars, pagerVars, session>>

\* mal_client.py:52-54  the body of a 200 is parsed, stored and returned.
ReadBody(c, body) ==
    /\ cl[c].pc = "reading"
    /\ body \in BodiesFor(cl[c].req)
    /\ mcache' = CacheOnResponse(mcache, cl[c].req, cl[c].status, body, now)
    /\ mlock' = 0
    /\ cl' = [cl EXCEPT ![c] = AfterGet([@ EXCEPT !.got = body], body)]
    /\ UNCHANGED <<now, cacheVars, botVars, wrapVars, lockVars, schedVars, pagerVars, session>>

\* mal_client.py:48-52  the call ends in an exception while it is
\* suspended: it is cancelled, times out (timeout=20) or the network fails.
\* `async with` releases the lock it held.
Abort(c, how) ==
    /\ \/ cl[c].pc = "wait_lock" /\ how = "cancelled"
       \/ cl[c].pc \in {"in_flight", "reading"}
    /\ mlock' = IF mlock = c THEN 0 ELSE mlock
    /\ cl' = [cl EXCEPT ![c].pc = "raised", ![c].err = how]
    /\ UNCHANGED <<now, cacheVars, botVars, wrapVars, lockVars, schedVars, pagerVars, mcache, session>>

Aborts == {"cancelled", "timeout", "network"}

InitClient ==
    /\ now = 1
    /\ CacheInit
    /\ ClientInit
    /\ BotIdle
    /\ SchedInit
    /\ PagerIdle
    /\ WrapIdle
    /\ LocksIdle

NextClient ==
    \/ ClientTick
    \/ \E c \in Callers, ident \in Identifiers, kind \in Kinds : InfoCall(c, ident, kind)
    \/ \E c \in Callers : Lookup(c)
    \/ \E c \in Callers : Send(c)
    \/ \E c \in Callers, status \in Statuses : Respond(c, status)
    \/ \E c \in Callers, body \in SearchBodies \cup {FetchBody(i) : i \in Ids} : ReadBody(c, body)
    \/ \E c \in Callers, how \in Aborts : Abort(c, how)

SpecClient == InitClient /\ [][NextClient]_vars

----------------------------------------------------------------------------
(* Claims about MALClient, checked under SpecClient. *)

\* How many of the upstream requests in q are of kind op.
Count(q, op) == Cardinality({i \in 1..Len(q) : q[i] = op})

\* C4: resolving the same non-numeric identifier twice in sequence within
\* the cache TTL issues exactly one upstream search and at most one upstream
\* fetch by id in total, and the second resolve issues no upstream request.
C4_SecondResolveFromCache ==
    \A c \in Callers :
        ( /\ cl[c].pc = "done" /\ cl[c].prev.seen
          /\ cl[c].orig.t = "str" /\ ~IsDigit(cl[c].orig.v)
          /\ \A d \in Callers \ {c} : cl[d].n = 0
          /\ now - cl[c].prev.t0 < CacheTtl )
        => /\ Count(cl[c].prev.ups \o cl[c].ups, "search") = 1
           /\ Count(cl[c].prev.ups \o cl[c].ups, "fetch") <= 1
           /\ cl[c].ups = <<>>

\* The id the first hit of a search result carries (0: none), whether the
\* hit is wrapped in a node or not.
C5_CarriedId(sr) ==
    IF sr.t = "dict" /\ "data" \in DOMAIN sr.v /\ Len(sr.v["data"].v) > 0
    THEN LET h == sr.v["data"].v[1]
         IN IF "id" \in DOMAIN h.v THEN h.v["id"].v
            ELSE IF "node" \in DOMAIN h.v /\ "id" \in DOMAIN h.v["node"].v
                 THEN h.v["node"].v["id"].v
                 ELSE 0
    ELSE 0

\* The search result is absent (None) or empty ({} or no hits).
C5_NoHits(sr) == sr \in {JNull, EmptyDict, DataOf(<<>>)}

\* C5: info with an int or all-digit identifier makes exactly the fetch by
\* id and returns its result; with any other identifier it searches with
\* limit 1, then fetches the id the first hit carries and returns that
\* result, or returns {} without a fetch when the search found nothing.
C5_InfoResolves ==
    \A c \in Callers :
        cl[c].pc = "done" =>
            LET r == cl[c]
            IN IF r.orig \in {JInt(1), JStr(<<"0", "1">>)}
               THEN r.gets = <<FetchReq(r.kind, 1)>> /\ r.res = r.got
               ELSE /\ r.gets[1] = SearchReq(r.kind, r.orig.v, 1)
                    /\ C5_CarriedId(r.sres) # 0 =>
                          /\ r.gets = <<SearchReq(r.kind, r.orig.v, 1),
                                        FetchReq(r.kind, C5_CarriedId(r.sres))>>
                          /\ r.res = r.got
                    /\ C5_NoHits(r.sres) =>
                          /\ Len(r.gets) = 1
                          /\ r.res = EmptyDict

\* One caller resolved a digit string to its record, the other resolved a
\* name through a search hit to the record of the hit's id.
C5_Witness ==
    \E c \in Callers, d \in Callers :
        /\ cl[c].pc = "done" /\ cl[c].orig = JStr(<<"0", "1">>)
        /\ cl[c].res = FetchBody(1)
        /\ cl[d].pc = "done" /\ cl[d].orig = JStr(<<"1", "n">>)
        /\ Len(cl[d].gets) = 2 /\ cl[d].res = FetchBody(2)

\* C6: under any interleaving of concurrent _get calls for one request, at
\* most one upstream request is issued per TTL window: no request goes
\* upstream while the cache holds an unexpired entry for it.
C6_NoRedundantUpstream ==
    \A c \in Callers : ~cl[c].sentFresh

\* C7: an entry is written to the cache only by a call whose upstream
\* request returned 200 and whose body was read; a call that is cancelled,
\* times out, fails or gets a 204 or another status leaves the store as is.
C7_WrittenOnlyAfter200 ==
    \A k \in DOMAIN mcache' :
        (k \notin DOMAIN mcache \/ mcache'[k] # mcache[k]) =>
            \E c \in Callers :
                /\ cl[c].pc = "reading" /\ cl[c].status = 200 /\ cl[c].req = k
                /\ cl'[c].pc # "reading" /\ cl'[c].err = "none"

C7_FailureKeepsStore ==
    \A c \in Callers :
        ( /\ cl[c].pc \in {"wait_lock", "in_flight", "reading"}
          /\ \/ cl'[c].pc = "raised"
             \/ cl[c].pc = "in_flight" /\ cl'[c].status # 200 )
        => mcache' = mcache

C7_CacheOnlySuccess == [][C7_WrittenOnlyAfter200 /\ C7_FailureKeepsStore]_vars

\* One call timed out and another got a 204, and neither request is in the
\* cache.
C7_Witness ==
    \E c \in Callers, d \in Callers :
        /\ cl[c].pc = "raised" /\ cl[c].err = "timeout"
        /\ cl[c].req \notin DOMAIN mcache
        /\ cl[d].pc = "done" /\ cl[d].status = 204
        /\ cl[d].req \notin DOMAIN mcache

----------------------------------------------------------------------------
(* bot.py: the handlers' steps. *)

\* The request a handler's client call sends first (mal_client.py:73-75,
\* 104-106, 131-133, 144-153, 192-194); limit is the text of the parameter,
\* <<>> when the request has none.
\* mal_client.py:74, 132, 145, 152, 193  an upstream request, with the text
\* of its limit parameter, str(limit) (<<>>: the request has none)
Request(op, limit) == [op |-> op, limit |-> limit]

\* mal_client.py:68-75, 95-109, 127-153, 177-194  the first upstream request
\* of the client method a handler calls: info and recommend fetch by id for
\* a digit string and search with limit=1 for a name, the other methods send
\* the handler's limit as it is.
FirstRequest(cmd, limit, ident) ==
    IF Commands[cmd].ident
    THEN IF IsDigit(ident)
         THEN IF cmd = "info" THEN Request("fetch", <<>>)
              ELSE Request("recommendations", IntToStr(limit))
         ELSE Request("search", IntToStr(1))
    ELSE Request(Commands[cmd].op, IntToStr(limit))

\* bot.py:140, 160, 180  the kind a handler works with
HandlerKind(cmd, kind) ==
    IF cmd \in {"info", "top", "trending"} THEN Lower(kind) ELSE kind

\* bot.py:73-82, 113-120, 138-150, 158-163, ...  a handler runs from its
\* defer to its first client call, or returns with an error message.
Invoke(cmd, given, lim, kind, ident) ==
    /\ bot.pc = "ready"
    /\ LET c == Commands[cmd]
           limit0 == IF given THEN lim ELSE c.default
           limit == HandlerLimit(cmd, limit0)
           k == IF c.kinded THEN HandlerKind(cmd, kind) ELSE "anime"
           id == IF c.ident THEN ident ELSE <<>>
           b == [NoBot EXCEPT !.cmd = cmd, !.given = given /\ c.default # 0,
                              !.limitIn = IF given /\ c.default # 0 THEN lim ELSE 0,
                              !.limit = IF c.default # 0 THEN limit ELSE 0,
                              !.kind = k, !.ident = id, !.deferred = TRUE,
                              !.responseCalls = 1]
       IN /\ (c.default = 0 => ~given /\ lim = 0)
          /\ (~given => lim = 0)
          /\ (~c.kinded => kind = "anime")
          /\ (~c.ident => ident = <<>>)
          /\ bot' =
               IF c.cred /\ ~cred
               THEN [b EXCEPT !.pc = "returned", !.msgs = <<"config_missing">>]
               ELSE IF c.kindCheck /\ k \notin {"anime", "manga"}
               THEN [b EXCEPT !.pc = "returned", !.msgs = <<"usage">>]
               ELSE IF c.ident /\ id = <<>>
               THEN [b EXCEPT !.pc = "returned", !.msgs = <<"usage">>]
               ELSE [b EXCEPT !.pc = "calling",
                              !.reqs = <<FirstRequest(cmd, b.limit, id)>>]
    /\ UNCHANGED <<now, cacheVars, clientVars, cred, wrapVars, lockVars, schedVars, pagerVars>>

\* bot.py:61-65  safe_mal_call when the client call raises: it logs and
\* answers through interaction.response.send_message.  discord.py lets an
\* interaction's response be used once: after the handler's defer() the
\* send raises InteractionResponded inside the except block, the exception
\* leaves safe_mal_call and the handler, and on_app_command_error
\* (bot.py:307-313) fails on the same response and only logs.  Before a
\* defer the message is sent and the call returns None.
SafeMalCallFailure(b) ==
    IF b.deferred
    THEN [b EXCEPT !.pc = "crashed", !.failed = TRUE,
                   \* bot.py:64 and bot.py:311
                   !.responseCalls = @ + 2]
    ELSE [b EXCEPT !.msgs = Append(@, "failure"), !.failed = TRUE,
                   !.responseCalls = @ + 1]

\* bot.py:241  items[:max(1, limit or 1)] in recommend, items[:limit] elsewhere
SliceLimit(cmd, limit) ==
    IF cmd = "recommend" THEN Max(1, IF limit = 0 THEN 1 ELSE limit) ELSE limit

\* bot.py:83-89, 150-154, 163-169, 183-186, ...  the client call returns (or
\* raises into safe_mal_call) and the handler goes on to its result list.
ClientAnswer(out) ==
    /\ bot.pc = "calling"
    /\ LET c == Commands[bot.cmd]
           items == ItemsOf(out)
           queue == PySlice(items, SliceLimit(bot.cmd, bot.limit))
       IN bot' =
            IF out = Raised
            THEN LET b == SafeMalCallFailure([bot EXCEPT !.data = out])
                 \* bot.py:84-85  a safe_mal_call that returned gave None
                 IN IF b.pc = "crashed" THEN b ELSE [b EXCEPT !.pc = "returned"]
            ELSE IF ~Truthy(out)
            THEN [bot EXCEPT !.pc = "returned", !.data = out]
            ELSE IF bot.cmd = "info"
            THEN [bot EXCEPT !.pc = "returned", !.data = out,
                             !.msgs = Append(@, "card")]
            ELSE IF items = <<>>
            THEN [bot EXCEPT !.pc = "returned", !.data = out,
                             !.msgs = IF c.emptyMsg THEN Append(@, "empty") ELSE @]
            ELSE IF queue = <<>>
            THEN [bot EXCEPT !.pc = "returned", !.data = out]
            ELSE [bot EXCEPT !.pc = "items", !.data = out, !.queue = queue]
    /\ UNCHANGED <<now, cacheVars, clientVars, cred, wrapVars, lockVars, schedVars, pagerVars>>

\* bot.py:93-106, 129-134, 170-174, 259-261, 301-304  one turn of the loop
\* over the result list: the details are fetched where the handler does so,
\* and a card is sent.
ItemStep(out) ==
    /\ bot.pc = "items"
    /\ LET c == Commands[bot.cmd]
           entry == Head(bot.queue)
           node == NodeOf(entry)
           id == ItemIdOf(c.card, entry)
           fetch == Truthy(id) \/ (c.card = "sched" /\ node.t = "dict")
           raised == fetch /\ out = Raised
           \* safe_mal_call: the value of the call, None when it failed
           info == IF ~fetch THEN node ELSE IF raised THEN JNull ELSE out
           shown == PyOr(info, node)
           rest == Tail(bot.queue)
           sent == [bot EXCEPT !.reqs = IF fetch THEN Append(@, Request("fetch", <<>>))
                                        ELSE @]
           b == IF raised THEN SafeMalCallFailure(sent) ELSE sent
       IN /\ out \in IF fetch THEN {Raised, JNull, FetchBody(2)} ELSE {JNull}
          /\ bot' =
               IF b.pc = "crashed" THEN b
               ELSE [b EXCEPT
                       !.pc = IF rest = <<>> THEN "returned" ELSE "items",
                       !.queue = rest,
                       !.msgs = Append(@, IF shown = JNull THEN "card_none" ELSE "card")]
    /\ UNCHANGED <<now, cacheVars, clientVars, cred, wrapVars, lockVars, schedVars, pagerVars>>

InitBot ==
    /\ now = 1
    /\ CacheInit
    /\ ClientInit
    /\ BotInit
    /\ SchedInit
    /\ PagerIdle
    /\ WrapIdle
    /\ LocksIdle

NextBot ==
    \/ \E cmd \in CommandNames, given \in BOOLEAN, lim \in LimitInputs \cup {0},
          kind \in KindInputs, ident \in IdentInputs :
          Invoke(cmd, given, lim, kind, ident)
    \/ \E out \in ClientResults : ClientAnswer(out)
    \/ \E out \in {Raised, JNull, FetchBody(2)} : ItemStep(out)

SpecBot == InitBot /\ [][NextBot]_vars

----------------------------------------------------------------------------
(* Claims about the handlers, checked under SpecBot. *)

\* The handler was given a supported kind and an identifier where it takes
\* them, so that only the configuration can keep it from the upstream.
ValidInputs ==
    /\ Commands[bot.cmd].kinded => bot.kind \in {"anime", "manga"}
    /\ Commands[bot.cmd].ident => bot.ident # <<>>

\* C8: with MAL_CLIENT_ID absent every API-dependent command answers with a
\* configuration-missing error and no upstream request is attempted.
C8_NoCredentialNoRequest ==
    (~cred /\ bot.pc # "ready" /\ ValidInputs) =>
        /\ bot.reqs = <<>>
        /\ bot.pc = "returned" => bot.msgs = <<"config_missing">>

\* The number a limit parameter's text stands for.
C9_ParamValue(s) == IF s[1] = "-" THEN 0 - StrToInt(Tail(s)) ELSE StrToInt(s)

\* C9: whatever integer limit the user gives or omits, in every command that
\* takes one, every limit parameter sent upstream lies in 1..15.
C9_UpstreamLimitInRange ==
    \A i \in 1..Len(bot.reqs) :
        bot.reqs[i].limit # <<>> => C9_ParamValue(bot.reqs[i].limit) \in 1..15

\* The client's result has no items: an empty record (no results array) or
\* a record whose results array is empty.
C10_NoResults(data) == data \in {EmptyDict, DataOf(<<>>)}

\* C10: when the upstream result has an absent or empty results array, or
\* the client returns an empty record, the handler that made the call sends
\* an empty-state message and raises no error; it never returns in silence.
C10_EmptyStateMessage ==
    (cred /\ bot.pc = "returned" /\ bot.reqs # <<>> /\ C10_NoResults(bot.data)) =>
        bot.msgs = <<"empty">>

\* C11: when an upstream call made by a handler fails, the user gets a
\* failure message for the interaction and the handler ends without an
\* unhandled exception, although it deferred the response before the call.
C11_FailureReported ==
    bot.failed =>
        /\ bot.pc # "crashed"
        /\ \E i \in 1..Len(bot.msgs) : bot.msgs[i] = "failure"

----------------------------------------------------------------------------
(* Further claims about MALClient, checked under SpecClient. *)

\* C12: no upstream condition (a non-2xx status, a network error, a timeout)
\* leaves a MALClient operation as a raised exception: only the caller's own
\* cancellation ends a call in an exception.
C12_ClientNeverRaises ==
    \A c \in Callers : cl[c].pc = "raised" => cl[c].err = "cancelled"

\* The statuses the specification classifies as failures of other kinds than
\* rate_limited: bad_request, unauthorized, not_found, upstream_unexpected.
C13_OtherFailures == {400, 401, 404, 500}

\* C13: a _get call sends at most one upstream request whatever the status
\* of the response (a rate-limited response is not retried), and the
\* exception a rate-limited response ends in tells it from the other
\* failures: it carries 429 exactly when the upstream answered 429.
C13_NoRetryDistinctKind ==
    \A c \in Callers :
        /\ Len(cl[c].ups) <= Len(cl[c].gets)
        /\ (cl[c].pc = "raised" /\ cl[c].err = "http") =>
              /\ cl[c].status = 429 => cl[c].exc \notin C13_OtherFailures \cup {0}
              /\ cl[c].status \in C13_OtherFailures => cl[c].exc # 429

\* A rate-limited response has ended a call, which sent one request for each
\* of its _get calls.
C13_Witness ==
    \E c \in Callers :
        /\ cl[c].pc = "raised" /\ cl[c].status = 429
        /\ Len(cl[c].ups) = Len(cl[c].gets)

\* A call on the client has been answered 401 (the caller has not started
\* another call since).
C14_Unauthorized ==
    \E c \in Callers :
        cl[c].pc = "raised" /\ cl[c].err = "http" /\ cl[c].status = 401

\* C14: once a call on the client instance has been answered 401, the
\* instance sends no further upstream request.
C14_UnauthorizedIsFatal ==
    [][C14_Unauthorized =>
          \A d \in Callers : Len(cl'[d].ups) <= Len(cl[d].ups)]_vars

\* C15: while one _get call awaits its response, a concurrent _get call for
\* a different request that the cache does not hold can send its own
\* upstream request without waiting for the first to finish.
C15_ConcurrentRequests ==
    \A c, d \in Callers :
        ( /\ c # d
          /\ cl[c].pc = "in_flight"
          /\ cl[d].pc = "wait_lock"
          /\ cl[d].req # cl[c].req
          /\ ~McFresh(mcache, cl[d].req, now) ) => CanSend(d)

----------------------------------------------------------------------------
(* Further claims about the handlers, checked under SpecBot. *)

\* The closed set of kinds.
C16_SupportedKinds == {"anime", "manga", "character", "person", "studio"}

\* C16: in every command that takes a kind, an upstream request is made only
\* with a kind of the closed set; any other kind is answered with an error
\* message and no upstream request.
C16_KindIsClosedEnum ==
    ( /\ cred /\ bot.pc # "ready"
      /\ Commands[bot.cmd].kinded /\ bot.kind \notin C16_SupportedKinds ) =>
        /\ bot.reqs = <<>>
        /\ bot.pc = "returned" => bot.msgs = <<"usage">>

----------------------------------------------------------------------------
(* mal_client.py: MALClient.schedule, step by step. *)

\* mal_client.py:155-162  schedule(day) is called and awaits seasonal.
ScheduleCall(day) ==
    /\ sched.pc = "idle"
    /\ sched' = [sched EXCEPT !.pc = "seasonal", !.day = day]
    /\ UNCHANGED <<now, cacheVars, clientVars, botVars, wrapVars, lockVars, pagerVars>>

\* mal_client.py:162-175  seasonal returns (or raises) and schedule ends.
SeasonalReturns(season) ==
    /\ sched.pc = "seasonal"
    /\ LET res == ScheduleResult(season, sched.day)
       IN sched' = [sched EXCEPT !.pc = IF res = Raised THEN "raised" ELSE "done",
                                 !.season = season, !.res = res]
    /\ UNCHANGED <<now, cacheVars, clientVars, botVars, wrapVars, lockVars, pagerVars>>

InitSchedule ==
    /\ now = 1
    /\ CacheInit
    /\ ClientInit
    /\ BotIdle
    /\ SchedInit
    /\ PagerIdle
    /\ WrapIdle
    /\ LocksIdle

NextSchedule ==
    \/ \E day \in DayInputs : ScheduleCall(day)
    \/ \E season \in SeasonResults : SeasonalReturns(season)

SpecSchedule == InitSchedule /\ [][NextSchedule]_vars

\* The items of the season list that air on the weekday asked for.
RECURSIVE C17_OfDay(_, _)
C17_OfDay(q, dayLow) ==
    IF q = <<>> THEN <<>>
    ELSE IF AirsOn(Head(q)) = dayLow
         THEN <<Head(q)>> \o C17_OfDay(Tail(q), dayLow)
         ELSE C17_OfDay(Tail(q), dayLow)

\* C17: schedule(day) with a weekday returns the items of the season list
\* that air on that weekday and no item of another day; with the day omitted
\* it returns the whole season list.
C17_ScheduleFiltersByDay ==
    (sched.pc = "done" /\ sched.season.t = "dict" /\ "data" \in DOMAIN sched.season.v) =>
        IF Truthy(sched.day)
        THEN sched.res = DataOf(C17_OfDay(sched.season.v["data"].v, StrLower(sched.day.v)))
        ELSE sched.res = sched.season

----------------------------------------------------------------------------
(* The pagination session: its events (specification, section 4.3). *)

\* A navigation event of user u at time t.  An Expired (or overdue) session
\* acknowledges the event and does nothing more; an event of a user who is
\* not authorized is rejected and is no activity; an accepted event moves
\* the index, re-arms the idle timer and re-renders the page.
AfterEvent(p, kind, u, t) ==
    LET expired == SessionExpired(p, t)
        accepted == ~expired /\ Authorized(p, u)
        outcome == IF expired THEN "expired"
                   ELSE IF accepted THEN "accepted" ELSE "not_authorized"
        goesOn == accepted /\ p.ev.outcome = "accepted" /\ p.ev.kind = kind
        ev == [kind |-> kind, user |-> u, outcome |-> outcome, acked |-> TRUE,
               rendered |-> accepted, idle |-> t - p.last > p.ttl,
               idx0 |-> p.idx, last0 |-> p.last,
               run |-> IF goesOn THEN Min(p.ev.run + 1, p.n + 5)
                       ELSE IF accepted THEN 1 ELSE 0,
               from |-> IF goesOn THEN p.ev.from ELSE p.idx]
    IN [p EXCEPT !.state = IF expired THEN "Expired" ELSE @,
                 !.idx = IF ~accepted THEN @
                         ELSE IF kind = "Next" THEN NextIndex(@, p.n)
                         ELSE PrevIndex(@, p.n),
                 !.last = IF accepted THEN t ELSE @,
                 !.ev = ev]

Next(u) ==
    /\ pager.state # "none"
    /\ pager' = AfterEvent(pager, "Next", u, now)
    /\ UNCHANGED <<now, cacheVars, clientVars, botVars, wrapVars, lockVars, schedVars>>

Prev(u) ==
    /\ pager.state # "none"
    /\ pager' = AfterEvent(pager, "Prev", u, now)
    /\ UNCHANGED <<now, cacheVars, clientVars, botVars, wrapVars, lockVars, schedVars>>

\* Timeout fires after ttl of inactivity: Active -> Expired.
Timeout ==
    /\ pager.state = "Active"
    /\ now - pager.last > pager.ttl
    /\ pager' = [pager EXCEPT !.state = "Expired"]
    /\ UNCHANGED <<now, cacheVars, clientVars, botVars, wrapVars, lockVars, schedVars>>

SessionTick ==
    /\ now < MaxSessionClock
    /\ now' = now + 1
    /\ UNCHANGED <<cacheVars, clientVars, botVars, wrapVars, lockVars, schedVars, pagerVars>>

InitPager ==
    /\ now = 1
    /\ CacheInit
    /\ ClientInit
    /\ BotIdle
    /\ SchedInit
    /\ WrapIdle
    /\ LocksIdle
    /\ \E n \in 1..MaxPages, owner \in Users, restricted \in BOOLEAN,
          ttl \in 1..MaxSessionTtl :
          pager = NewSession(n, owner, restricted, ttl, now)

NextPager ==
    \/ SessionTick
    \/ \E u \in Users : Next(u)
    \/ \E u \in Users : Prev(u)
    \/ Timeout

SpecPager == InitPager /\ [][NextPager]_vars

----------------------------------------------------------------------------
(* Claims about the pagination session, checked under SpecPager. *)

\* C18: current_index stays in 0..N-1 whatever Next and Prev events come;
\* N+5 Next events from page 0 leave it at N-1 and N+5 Prev events from the
\* last page leave it at 0, and none of them is an error.
C18_PaginationClamps ==
    /\ pager.idx \in 0..(pager.n - 1)
    /\ (pager.ev.run = pager.n + 5 /\ pager.ev.kind = "Next" /\ pager.ev.from = 0) =>
          pager.idx = pager.n - 1 /\ pager.ev.outcome = "accepted"
    /\ (pager.ev.run = pager.n + 5 /\ pager.ev.kind = "Prev"
           /\ pager.ev.from = pager.n - 1) =>
          pager.idx = 0 /\ pager.ev.outcome = "accepted"

\* N+5 accepted Prev events in a row from the last page of a session of
\* several pages.
C18_Witness ==
    /\ pager.n = MaxPages
    /\ pager.ev.kind = "Prev" /\ pager.ev.run = pager.n + 5
    /\ pager.ev.from = pager.n - 1

\* The last event was a Next or a Prev.
NavEvent == pager.ev.kind \in {"Next", "Prev"}

\* A Next or Prev that comes when the session is Expired, or more than ttl
\* after the last accepted transition, is acknowledged, leaves current_index
\* as it was, re-renders nothing and finds or leaves the session Expired.
C19_ExpiredIsInert ==
    (NavEvent /\ (pager.ev.idle \/ pager.ev.outcome = "expired")) =>
        /\ pager.state = "Expired"
        /\ pager.idx = pager.ev.idx0
        /\ pager.ev.acked /\ ~pager.ev.rendered

\* Expired is terminal.
C19_ExpiredIsTerminal == pager.state = "Expired" => pager'.state = "Expired"

\* C19: a session that got no accepted transition for more than its ttl is
\* Expired, Expired is terminal, and a later Next or Prev is acknowledged but
\* changes neither current_index nor what is rendered.
C19_IdleExpiry == []C19_ExpiredIsInert /\ [][C19_ExpiredIsTerminal]_vars

\* A Next came more than ttl after the last transition, on a page that has a
\* next page.
C19_Witness ==
    /\ pager.ev.kind = "Next" /\ pager.ev.idle
    /\ pager.ev.idx0 > 0 /\ pager.ev.idx0 < pager.n - 1
    /\ pager.ev.user = pager.owner
    /\ pager.state = "Expired"

\* C20: in a session restricted to its owner, a Next or Prev of another
\* user is rejected, leaves current_index unchanged and does not reset the
\* idle timer.
C20_OnlyOwnerNavigates ==
    (pager.restricted /\ NavEvent /\ pager.ev.user # pager.owner) =>
        /\ pager.ev.outcome \in {"not_authorized", "expired"}
        /\ pager.ev.outcome = "expired" <=> pager.ev.idle
        /\ pager.idx = pager.ev.idx0
        /\ pager.last = pager.ev.last0
        /\ ~pager.ev.rendered

\* Another user's Next was rejected on a live session that has a next page,
\* some time after the owner's last transition.
C20_Witness ==
    /\ pager.restricted /\ pager.ev.kind = "Next"
    /\ pager.ev.user # pager.owner
    /\ pager.ev.outcome = "not_authorized"
    /\ pager.ev.idx0 > 0 /\ pager.ev.idx0 < pager.n - 1
    /\ pager.state = "Active" /\ now > pager.last

----------------------------------------------------------------------------
(* Further claims about TTLCache, checked under SpecCache. *)

\* What a step of get's body does to the store (obs' is set by that step
\* alone): entries of other keys stay; a missing entry gives absent and no
\* change; an entry for which get returns absent is removed; an entry whose
\* value get returns stays.  An entry strictly past its expiry time is of the
\* first kind, one strictly before it of the second.
C21_GetStep ==
    obs'.valid =>
        LET k == obs'.key
            item == store[k]
            ret == obs'.ret
        IN /\ \A j \in Keys \ {k} : store'[j] = store[j]
           /\ item = NoItem => (ret = None /\ store' = store)
           /\ (item # NoItem /\ ret = None) => store'[k] = NoItem
           /\ ret # None => (item # NoItem /\ ret = item[2] /\ store' = store)
           /\ (item # NoItem /\ item[1] # 0 /\ item[1] < now) => ret = None
           /\ (item # NoItem /\ now < item[1]) => ret # None

\* C21: a get that finds an expired entry removes it before returning
\* absent; a get that finds no entry, or a fresh one, leaves the store as it
\* is; get never changes the entries of other keys.
C21_GetPurgesOnlyStale == [][C21_GetStep]_vars

\* A get has just purged the expired entry of its key while the other key
\* holds an entry.
C21_Witness ==
    /\ obs.valid /\ obs.ret = None
    /\ obs.set.n > 0 /\ obs.set.by = 0 /\ ~obs.wasDead
    /\ store[obs.key] = NoItem
    /\ \E j \in Keys \ {obs.key} : store[j] # NoItem

----------------------------------------------------------------------------
(* Further claims about the handlers' result lists, checked under SpecBot. *)

\* C22: whether a result item comes wrapped in a node envelope or not, the
\* card a list handler sends for it is made from the item's own data or
\* from the details fetched for its id, never from None.
C22_CardNeverFromNone ==
    cred => \A i \in 1..Len(bot.msgs) : bot.msgs[i] # "card_none"

\* C24: an interaction's initial response is used at most once: after the
\* handler's defer() no later step, safe_mal_call's error message included,
\* calls send_message or defer on interaction.response again.
C24_ResponseUsedOnce ==
    bot.deferred => bot.responseCalls <= 1

----------------------------------------------------------------------------
(* mal_client.py: info with every upstream response, search hits whose id  *)
(* is a string included.  info calls itself with the id of the first hit   *)
(* (mal_client.py:123-124); the interpreter ends a recursion that does not *)
(* end by itself with RecursionError, MaxDepth calls of _get deep here.    *)

MaxDepth == 3

\* mal_client.py:36-46  _get, while the interpreter allows another frame
ResolveLookup(c) ==
    /\ Len(cl[c].gets) <= MaxDepth
    /\ Lookup(c)

\* mal_client.py:123-124  return await self.info(item_id, kind=kind) at the
\* interpreter's recursion limit: RecursionError leaves info.
RecursionError(c) ==
    /\ cl[c].pc = "lookup"
    /\ Len(cl[c].gets) > MaxDepth
    /\ cl' = [cl EXCEPT ![c].pc = "raised", ![c].err = "recursion"]
    /\ UNCHANGED <<now, cacheVars, botVars, wrapVars, lockVars, schedVars, pagerVars,
                   mcache, mlock, session>>

NextResolve ==
    \/ ClientTick
    \/ \E c \in Callers, ident \in Identifiers, kind \in Kinds : InfoCall(c, ident, kind)
    \/ \E c \in Callers : ResolveLookup(c)
    \/ \E c \in Callers : RecursionError(c)
    \/ \E c \in Callers : Send(c)
    \/ \E c \in Callers, status \in Statuses : Respond(c, status)
    \/ \E c \in Callers, body \in ResolveBodies \cup {FetchBody(i) : i \in Ids} : ReadBody(c, body)
    \/ \E c \in Callers, how \in Aborts : Abort(c, how)

SpecResolve == InitClient /\ [][NextResolve]_vars

\* How many of the requests in q that info passed to _get are of kind op.
C25_Gets(q, op) == Cardinality({i \in 1..Len(q) : q[i].op = op})

\* C25: info ends for every identifier and every upstream response, and
\* resolving a name makes at most one search and at most one fetch by id
\* (two calls deep at most), also when the first hit's id is itself a
\* string that is not a number and the search is answered from the cache.
C25_InfoTerminates ==
    \A c \in Callers :
        /\ cl[c].err # "recursion"
        /\ cl[c].orig.t = "str" =>
              /\ C25_Gets(cl[c].gets, "search") <= 1
              /\ C25_Gets(cl[c].gets, "fetch") <= 1
              /\ Len(cl[c].gets) <= 2

----------------------------------------------------------------------------
(* cache.py: aiorun_cached, step by step. *)

\* cache.py:32-34  inner(*args, **kwargs) is called and awaits CACHE.get.
WrappedCall(k) ==
    /\ wr.pc = "idle"
    /\ wr' = [wr EXCEPT !.pc = "get", !.key = k, !.result = None]
    /\ UNCHANGED <<now, cacheVars, clientVars, botVars, schedVars, pagerVars, lockVars>>

\* cache.py:34-37  CACHE.get(key) returns: a hit is returned, on a miss the
\* function is called.
WrappedGet ==
    /\ wr.pc = "get"
    /\ LET cached == GetResult(store, wr.key, now)
       IN /\ store' = StoreAfterGet(store, wr.key, now)
          /\ wr' = IF IsCacheHit(cached)
                   THEN [wr EXCEPT !.pc = "idle", !.result = cached,
                                   !.prev = wr.last,
                                   !.last = [valid |-> TRUE, key |-> wr.key,
                                             result |-> cached, invoked |-> FALSE,
                                             getAt |-> now, setAt |-> 0]]
                   ELSE [wr EXCEPT !.pc = "func", !.getAt = now]
    /\ UNCHANGED <<now, lock, pc, arg, lastSet, dead, obs>>
    /\ UNCHANGED <<clientVars, botVars, schedVars, pagerVars, lockVars>>

\* cache.py:37  func(*args, **kwargs) returns v.
FuncReturns(v) ==
    /\ wr.pc = "func"
    /\ wr' = [wr EXCEPT !.pc = "set", !.result = v]
    /\ UNCHANGED <<now, cacheVars, clientVars, botVars, schedVars, pagerVars, lockVars>>

\* cache.py:38-39  CACHE.set(key, result, ttl), and the result is returned.
WrappedSet ==
    /\ wr.pc = "set"
    /\ store' = StoreAfterSet(store, wr.key, SetExp(now, wr.ttl), wr.result)
    /\ wr' = [wr EXCEPT !.pc = "idle",
                        !.prev = wr.last,
                        !.last = [valid |-> TRUE, key |-> wr.key,
                                  result |-> wr.result, invoked |-> TRUE,
                                  getAt |-> wr.getAt, setAt |-> now]]
    /\ UNCHANGED <<now, lock, pc, arg, lastSet, dead, obs>>
    /\ UNCHANGED <<clientVars, botVars, schedVars, pagerVars, lockVars>>

\* cache.py:29  the decorator's ttl is fixed when the function is decorated.
InitWrap ==
    /\ now = 1
    /\ CacheInit
    /\ ClientInit
    /\ BotIdle
    /\ SchedInit
    /\ PagerIdle
    /\ LocksIdle
    /\ \E ttl \in Ttls : wr = [NoWrap EXCEPT !.ttl = ttl]

NextWrap ==
    \/ Tick
    \/ \E k \in Keys : WrappedCall(k)
    \/ WrappedGet
    \/ \E v \in Results : FuncReturns(v)
    \/ WrappedSet

SpecWrap == InitWrap /\ [][NextWrap]_vars

\* The last two calls had equal args, the first of them invoked the function
\* and stored its result, and the second read the cache within ttl of that.
C23_TwiceWithinTtl ==
    /\ wr.pc = "idle" /\ wr.last.valid /\ wr.prev.valid
    /\ wr.prev.key = wr.last.key /\ wr.prev.invoked
    /\ wr.last.getAt < wr.prev.setAt + wr.ttl

\* C23: of two calls in sequence with equal args within ttl only the first
\* invokes the function, and both return the same result, whatever the
\* function returned (None and falsy values included).
C23_SecondCallIsCached ==
    C23_TwiceWithinTtl =>
        ~wr.last.invoked /\ wr.last.result = wr.prev.result

----------------------------------------------------------------------------
(* bot.py, mal_client.py: a command's way through the locks. *)

\* In k, task h goes for lock l: it holds it at once (pc held) or waits
\* for it (pc wait).
GoFor(k, h, l, held, wait) ==
    LET L == LockAcquire(k.locks, l, h)
    IN [k EXCEPT !.locks = L,
                 !.t[h].pc = IF Holds(L, l, h) THEN held ELSE wait,
                 !.t[h].waited = IF Holds(L, l, h) THEN @ ELSE @ \cup {l}]

\* The lock a waiting task waits for, and where it goes on with it.
WaitsFor ==
    [s_wait  |-> [lock |-> SingletonLock, held |-> "s_held"],
     cg_wait |-> [lock |-> CacheLock, held |-> "cg_held"],
     r_wait  |-> [lock |-> RequestLock, held |-> "r_held"],
     cs_wait |-> [lock |-> CacheLock, held |-> "cs_held"]]

\* bot.py:82, 38-40  a handler calls get_mal_client, which goes for the
\* singleton lock.
CallGetMalClient(h) ==
    /\ lk.t[h].pc = "idle"
    /\ lk.t[h].n < MaxCommands
    /\ lk' = GoFor([lk EXCEPT !.t[h].n = @ + 1, !.t[h].client = 0,
                              !.t[h].waited = {}],
                   h, SingletonLock, "s_held", "s_wait")
    /\ UNCHANGED <<now, cacheVars, clientVars, botVars, wrapVars, schedVars, pagerVars>>

\* A released lock goes to its first waiter, which runs on.
LockGranted(h) ==
    /\ lk.t[h].pc \in DOMAIN WaitsFor
    /\ LET w == WaitsFor[lk.t[h].pc]
       IN /\ lk.locks[w.lock].holder = 0
          /\ lk.locks[w.lock].queue # <<>>
          /\ Head(lk.locks[w.lock].queue) = h
          /\ lk' = [lk EXCEPT !.locks = LockGrant(@, w.lock),
                              !.t[h].pc = w.held]
    /\ UNCHANGED <<now, cacheVars, clientVars, botVars, wrapVars, schedVars, pagerVars>>

\* bot.py:41-43  under the lock: the client is constructed when there is
\* none, and its __aenter__ is awaited.
Construct(h) ==
    /\ lk.t[h].pc = "s_held"
    /\ lk' = IF NeedsConstruction(lk.singleton)
             THEN [lk EXCEPT !.built = @ + 1, !.singleton = lk.built + 1,
                             !.t[h].pc = "s_enter"]
             ELSE [lk EXCEPT !.t[h].pc = "s_return"]
    /\ UNCHANGED <<now, cacheVars, clientVars, botVars, wrapVars, schedVars, pagerVars>>

\* bot.py:43, mal_client.py:22-28  __aenter__ returns.
Enter(h) ==
    /\ lk.t[h].pc = "s_enter"
    /\ lk' = [lk EXCEPT !.entered = @ + 1, !.t[h].pc = "s_return"]
    /\ UNCHANGED <<now, cacheVars, clientVars, botVars, wrapVars, schedVars, pagerVars>>

\* bot.py:44, mal_client.py:35-38  return _mal_client_singleton leaves the
\* lock; the handler calls the client, whose _get goes for the cache lock
\* (cache.get).
ReturnClient(h) ==
    /\ lk.t[h].pc = "s_return"
    /\ lk' = GoFor([lk EXCEPT !.locks = LockRelease(@, SingletonLock),
                              !.t[h].client = lk.singleton],
                   h, CacheLock, "cg_held", "cg_wait")
    /\ UNCHANGED <<now, cacheVars, clientVars, botVars, wrapVars, schedVars, pagerVars>>

\* mal_client.py:38-48  cache.get returns and leaves the cache lock: on a
\* hit _get returns, on a miss it goes for the request lock.
CacheGetReturns(h, hit) ==
    /\ lk.t[h].pc = "cg_held"
    /\ lk' = LET k == [lk EXCEPT !.locks = LockRelease(@, CacheLock)]
             IN IF hit THEN [k EXCEPT !.t[h].pc = "idle"]
                ELSE GoFor(k, h, RequestLock, "r_held", "r_wait")
    /\ UNCHANGED <<now, cacheVars, clientVars, botVars, wrapVars, schedVars, pagerVars>>

\* mal_client.py:49-65  under the request lock the upstream call completes:
\* with a 200 and its body _get goes for the cache lock (cache.set), with
\* anything else (a 204, another status, a timeout) it leaves the request
\* lock by return or by exception.
UpstreamCompletes(h, ok) ==
    /\ lk.t[h].pc = "r_held"
    /\ lk' = IF ok THEN GoFor(lk, h, CacheLock, "cs_held", "cs_wait")
             ELSE [lk EXCEPT !.locks = LockRelease(@, RequestLock),
                             !.t[h].pc = "idle"]
    /\ UNCHANGED <<now, cacheVars, clientVars, botVars, wrapVars, schedVars, pagerVars>>

\* mal_client.py:53-54  cache.set returns and leaves the cache lock, and
\* return data leaves the request lock.
CacheSetReturns(h) ==
    /\ lk.t[h].pc = "cs_held"
    /\ lk' = [lk EXCEPT !.locks = LockRelease(LockRelease(@, CacheLock), RequestLock),
                        !.t[h].pc = "idle"]
    /\ UNCHANGED <<now, cacheVars, clientVars, botVars, wrapVars, schedVars, pagerVars>>

InitLocks ==
    /\ now = 1
    /\ CacheInit
    /\ ClientInit
    /\ BotIdle
    /\ SchedInit
    /\ PagerIdle
    /\ WrapIdle
    /\ LocksIdle

\* What a task does once it can: everything but the arrival of a command.
Runs(h) ==
    \/ LockGranted(h)
    \/ Construct(h)
    \/ Enter(h)
    \/ ReturnClient(h)
    \/ \E hit \in BOOLEAN : CacheGetReturns(h, hit)
    \/ \E ok \in BOOLEAN : UpstreamCompletes(h, ok)
    \/ CacheSetReturns(h)

NextLocks ==
    \/ \E h \in Handlers : CallGetMalClient(h)
    \/ \E h \in Handlers : LockGranted(h)
    \/ \E h \in Handlers : Construct(h)
    \/ \E h \in Handlers : Enter(h)
    \/ \E h \in Handlers : ReturnClient(h)
    \/ \E h \in Handlers, hit \in BOOLEAN : CacheGetReturns(h, hit)
    \/ \E h \in Handlers, ok \in BOOLEAN : UpstreamCompletes(h, ok)
    \/ \E h \in Handlers : CacheSetReturns(h)

\* The event loop runs every task that can run, and upstream calls
\* complete (timeout=20, mal_client.py:49).
SpecLocks ==
    InitLocks /\ [][NextLocks]_vars /\ \A h \in Handlers : WF_vars(Runs(h))

\* No task that holds the cache lock waits for a lock, and no task in a
\* cache operation (it waits for the cache lock or holds it) waits for the
\* request lock.
C26_CacheLockLast ==
    \A h \in Handlers :
        /\ Holds(lk.locks, CacheLock, h) =>
              \A l \in LockNames : ~Waits(lk.locks, l, h)
        /\ (Waits(lk.locks, CacheLock, h) \/ Holds(lk.locks, CacheLock, h)) =>
              ~Waits(lk.locks, RequestLock, h)

\* Some task can take a step unless every task is idle.
C26_NotStuck ==
    (\E h \in Handlers : lk.t[h].pc # "idle") => \E h \in Handlers : ENABLED Runs(h)

\* C26: the singleton lock, the request lock and the cache lock never
\* deadlock: the cache lock is only ever taken last, no cache operation
\* waits for the request lock, and every task that waits for a lock gets
\* it in the end, upstream calls completing.
C26_NoDeadlock ==
    /\ [](C26_CacheLockLast /\ C26_NotStuck)
    /\ \A h \in Handlers, l \in LockNames :
          Waits(lk.locks, l, h) ~> Holds(lk.locks, l, h)

\* A task that had to wait for the request lock and then for the cache lock
\* has finished its command, and so has the other.
C26_Witness ==
    \E h \in Handlers :
        /\ lk.t[h].pc = "idle"
        /\ {RequestLock, CacheLock} \subseteq lk.t[h].waited
        /\ \A g \in Handlers : lk.t[g].pc = "idle" /\ lk.t[g].n > 0

\* C27: however concurrent calls of get_mal_client interleave, at most one
\* MALClient is ever constructed and entered, and every call returns that
\* one instance.
C27_OneClient ==
    /\ lk.built <= 1
    /\ lk.entered <= 1
    /\ \A h \in Handlers :
          lk.t[h].client # 0 =>
              /\ lk.t[h].client = 1
              /\ lk.singleton = 1 /\ lk.entered = 1

\* Two tasks called get_mal_client at the same time, one of them waited
\* for the lock, and both got the one client.
C27_Witness ==
    /\ lk.built = 1
    /\ \A h \in Handlers : lk.t[h].client = 1 /\ lk.t[h].n = 1
    /\ \E h \in Handlers : SingletonLock \in lk.t[h].waited

====
